---- MODULE Spec2Model ----
(***************************************************************************)
(* excel2json: one worksheet of a workbook is converted into an array of   *)
(* JSON objects (src/src/main.rs).                                          *)
(*                                                                         *)
(* Text is modelled as a sequence of one-character strings, so that trim,  *)
(* replace, split and parse are computed character by character as the     *)
(* Rust code computes them.  A cell is modelled by its text rendering      *)
(* (calamine's Display for Data), the only thing the program reads of it.  *)
(***************************************************************************)
EXTENDS Integers, Sequences, FiniteSets, TLC

VARIABLES
    pc,               \* position of the run / of the function under study
    name,             \* normalize_column_name: the argument
    normalized,       \* normalize_column_name(name)
    renormalized,     \* normalize_column_name(normalized)
    header_row,       \* first row of the sheet (sequence of cell texts)
    visible_indices,  \* get_visible_column_indices(header_row), 0-based
    columns_str,      \* --columns: the selector text (NoColumns when absent)
    selection,        \* Result of parse_visible_column_numbers
    column_indices,   \* the ColumnSelection, 0-based grid columns
    headers,          \* extract_headers(header_row, column_indices)
    rows,             \* the data rows (rows after the header row)
    json_array,       \* convert_rows_to_json(rows, headers, column_indices)
    preserve_order,   \* whether serde_json is built with "preserve_order"
    grid,             \* the sheet's range: all rows, header first
    json_output,      \* serde_json::to_string_pretty(json_array), tokenised
    out_before,       \* the output file before the run
    out_file,         \* the output file now
    error             \* the error main returned, NoError while none

vars == <<pc, name, normalized, renormalized, header_row, visible_indices,
          columns_str, selection, column_indices, headers, rows, json_array,
          preserve_order, grid, json_output, out_before, out_file, error>>

normVars == <<name, normalized, renormalized>>
selVars == <<columns_str, selection>>
convVars == <<column_indices, headers, rows, json_array>>
ioVars == <<grid, json_output, out_before, out_file, error>>

----------------------------------------------------------------------------
(* Bounds of the model *)

\* longest header text enumerated for normalize_column_name
MaxLen == 3
\* widest header row enumerated
MaxCols == 3
\* most selector tokens enumerated
MaxTokens == 2
\* most data rows enumerated for convert_rows_to_json
MaxRows == 1

----------------------------------------------------------------------------
(* Characters and text *)

\* ASCII characters of the model, in code-point order
AsciiOrder ==
    <<"\t", "\n", " ", "#", "$", "%", "&", "(", ")", "+", ",", "-", "/",
      "0", "1", "2", "3", "4", "5", "6", "7", "8", "9", "@",
      "A", "B", "C", "D", "E", "F", "G", "H", "I", "J", "K", "L", "M",
      "N", "O", "P", "Q", "R", "S", "T", "U", "V", "W", "X", "Y", "Z", "_",
      "a", "b", "c", "d", "e", "f", "g", "h", "i", "j", "k", "l", "m",
      "n", "o", "p", "q", "r", "s", "t", "u", "v", "w", "x", "y", "z">>

CharCode(c) == CHOOSE i \in 1..Len(AsciiOrder) : AsciiOrder[i] = c

\* char::is_whitespace, restricted to the model's characters
IsWhitespace(c) == c \in {" ", "\t", "\n"}

IsUpper(c) == CharCode(c) >= CharCode("A") /\ CharCode(c) <= CharCode("Z")

\* char lower-casing: 'A'..'Z' are 26 places and one '_' below 'a'..'z'
ToLowerChar(c) ==
    IF IsUpper(c) THEN AsciiOrder[CharCode(c) + 27] ELSE c

\* str::to_lowercase
to_lowercase(s) == [i \in 1..Len(s) |-> ToLowerChar(s[i])]

RECURSIVE trim_start(_)
trim_start(s) ==
    IF s # <<>> /\ IsWhitespace(s[1]) THEN trim_start(Tail(s)) ELSE s

RECURSIVE trim_end(_)
trim_end(s) ==
    IF s # <<>> /\ IsWhitespace(s[Len(s)])
    THEN trim_end(SubSeq(s, 1, Len(s) - 1))
    ELSE s

\* str::trim
trim(s) == trim_end(trim_start(s))

\* str::replace: every non-overlapping match of pat, left to right
RECURSIVE replace(_, _, _)
replace(s, pat, rep) ==
    IF Len(s) < Len(pat) THEN s
    ELSE IF SubSeq(s, 1, Len(pat)) = pat
         THEN rep \o replace(SubSeq(s, Len(pat) + 1, Len(s)), pat, rep)
         ELSE <<s[1]>> \o replace(Tail(s), pat, rep)

\* str::split(sep): the segments between the separators, empty ones included
RECURSIVE split(_, _)
split(s, sep) ==
    IF \A i \in 1..Len(s) : s[i] # sep THEN <<s>>
    ELSE LET k == CHOOSE i \in 1..Len(s) :
                      s[i] = sep /\ \A j \in 1..(i - 1) : s[j] # sep
         IN  <<SubSeq(s, 1, k - 1)>> \o split(SubSeq(s, k + 1, Len(s)), sep)

\* Iterator::filter(|s| !s.is_empty())
RECURSIVE filter_non_empty(_)
filter_non_empty(segs) ==
    IF segs = <<>> THEN <<>>
    ELSE IF segs[1] = <<>> THEN filter_non_empty(Tail(segs))
         ELSE <<segs[1]>> \o filter_non_empty(Tail(segs))

\* [&str]::join(sep)
RECURSIVE join(_, _)
join(segs, sep) ==
    IF segs = <<>> THEN <<>>
    ELSE IF Len(segs) = 1 THEN segs[1]
         ELSE segs[1] \o sep \o join(Tail(segs), sep)

----------------------------------------------------------------------------
(* normalize_column_name *)

\* the match on the trimmed header: the six single symbols
SingleSymbolWord(trimmed) ==
    IF trimmed = <<"#">> THEN <<"n", "u", "m", "b", "e", "r">>
    ELSE IF trimmed = <<"@">> THEN <<"a", "t">>
    ELSE IF trimmed = <<"%">> THEN <<"p", "e", "r", "c", "e", "n", "t">>
    ELSE IF trimmed = <<"$">> THEN <<"u", "s", "d">>
    ELSE IF trimmed = <<"/">> THEN <<"s", "l", "a", "s", "h">>
    ELSE <<"a", "n", "d">>

IsSingleSymbol(trimmed) ==
    trimmed \in {<<"#">>, <<"@">>, <<"%">>, <<"$">>, <<"/">>, <<"&">>}

\* the default arm of the match: the chain of replacements
replace_chain(trimmed) ==
    LET s0 == to_lowercase(trimmed)
        s1 == replace(s0, <<" ", "&", " ">>, <<"_", "a", "n", "d", "_">>)
        s2 == replace(s1, <<"&">>, <<"_", "a", "n", "d", "_">>)
        s3 == replace(s2, <<"/">>, <<"_">>)
        s4 == replace(s3, <<"@">>, <<"_", "a", "t", "_">>)
        s5 == replace(s4, <<"#">>, <<"_">>)
        s6 == replace(s5, <<"%">>,
                      <<"_", "p", "e", "r", "c", "e", "n", "t">>)
        s7 == replace(s6, <<"$">>, <<"_", "u", "s", "d">>)
        s8 == replace(s7, <<"(">>, <<>>)
        s9 == replace(s8, <<")">>, <<>>)
    IN  replace(s9, <<" ">>, <<"_">>)

\* the clean-up: split on '_', drop the empty segments, join with '_'
collapse_underscores(result) ==
    join(filter_non_empty(split(result, "_")), <<"_">>)

normalize_column_name_no_match(n) ==
    collapse_underscores(replace_chain(trim(n)))

normalize_column_name(n) ==
    LET trimmed == trim(n)
        result  == IF IsSingleSymbol(trimmed)
                   THEN SingleSymbolWord(trimmed)
                   ELSE replace_chain(trimmed)
    IN  collapse_underscores(result)

----------------------------------------------------------------------------
(* Values the variables hold while a function is not under study *)

NoColumns == [some |-> FALSE, text |-> <<>>]
SomeColumns(text) == [some |-> TRUE, text |-> text]
NoSelection == [ok |-> TRUE, cols |-> <<>>, err |-> "none"]
NoError == "none"
NoFile == [exists |-> FALSE, content |-> <<>>]

NormIdle ==
    /\ name = <<>> /\ normalized = <<>> /\ renormalized = <<>>
SelIdle ==
    /\ columns_str = NoColumns /\ selection = NoSelection
ConvIdle ==
    /\ column_indices = <<>> /\ headers = <<>> /\ rows = <<>>
    /\ json_array = <<>>
IoIdle ==
    /\ grid = <<>> /\ json_output = <<>> /\ out_before = NoFile
    /\ out_file = NoFile /\ error = NoError

\* all sequences over S of length lo..hi
SeqsOf(S, lo, hi) == UNION {[1..n -> S] : n \in lo..hi}

----------------------------------------------------------------------------
(* Specification SpecNormalize: normalize_column_name on every header text *)

\* characters the enumerated header texts are made of
NormAlphabet ==
    {"a", "B", "_", " ", "\t", "#", "@", "%", "$", "/", "&", "(", ")"}

\* the header texts of the source's and the specification's examples
First_Name_Padded ==
    <<" ", "F", "i", "r", "s", "t", " ", "N", "a", "m", "e", " ">>
Underscored_a_b == <<"_", "_", "a", "_", "_", "b", "_", "_">>
Sales_Revenue ==
    <<"S", "a", "l", "e", "s", "/", "R", "e", "v", "e", "n", "u", "e">>
Profit_And_Loss ==
    <<"P", "r", "o", "f", "i", "t", " ", "&", " ", "L", "o", "s", "s">>
first_name == <<"f", "i", "r", "s", "t", "_", "n", "a", "m", "e">>

ExampleHeaders ==
    {First_Name_Padded, Underscored_a_b, Sales_Revenue, Profit_And_Loss,
     first_name}

HeaderTexts == SeqsOf(NormAlphabet, 0, MaxLen) \cup ExampleHeaders

InitNormalize ==
    /\ pc = "norm_call"
    /\ name \in HeaderTexts
    /\ normalized = <<>> /\ renormalized = <<>>
    /\ header_row = <<>> /\ visible_indices = <<>>
    /\ preserve_order = FALSE
    /\ SelIdle /\ ConvIdle /\ IoIdle

\* the header is normalized
Normalize ==
    /\ pc = "norm_call"
    /\ normalized' = normalize_column_name(name)
    /\ pc' = "norm_done"
    /\ UNCHANGED <<name, renormalized, header_row, visible_indices, selVars,
                   convVars, preserve_order, ioVars>>

\* the normalized header is normalized again
Renormalize ==
    /\ pc = "norm_done"
    /\ renormalized' = normalize_column_name(normalized)
    /\ pc' = "norm_twice"
    /\ UNCHANGED <<name, normalized, header_row, visible_indices, selVars,
                   convVars, preserve_order, ioVars>>

NextNormalize == Normalize \/ Renormalize

SpecNormalize == InitNormalize /\ [][NextNormalize]_vars

----------------------------------------------------------------------------
(* C3, C4: normalize_column_name *)

\* the canonical word of each single symbol, as the claim lists them
CanonicalWord ==
    [c \in {"#", "@", "%", "$", "/", "&"} |->
        CASE c = "#" -> <<"n", "u", "m", "b", "e", "r">>
          [] c = "@" -> <<"a", "t">>
          [] c = "%" -> <<"p", "e", "r", "c", "e", "n", "t">>
          [] c = "$" -> <<"u", "s", "d">>
          [] c = "/" -> <<"s", "l", "a", "s", "h">>
          [] c = "&" -> <<"a", "n", "d">>]

\* the ordered replacements, as the claim lists them
OrderedReplacements ==
    << <<(<<" ", "&", " ">>), (<<"_", "a", "n", "d", "_">>)>>,
       <<(<<"&">>), (<<"_", "a", "n", "d", "_">>)>>,
       <<(<<"/">>), (<<"_">>)>>,
       <<(<<"@">>), (<<"_", "a", "t", "_">>)>>,
       <<(<<"#">>), (<<"_">>)>>,
       <<(<<"%">>), (<<"_", "p", "e", "r", "c", "e", "n", "t">>)>>,
       <<(<<"$">>), (<<"_", "u", "s", "d">>)>>,
       <<(<<"(">>), (<<>>)>>,
       <<(<<")">>), (<<>>)>>,
       <<(<<" ">>), (<<"_">>)>> >>

RECURSIVE ApplyReplacements(_, _)
ApplyReplacements(s, reps) ==
    IF reps = <<>> THEN s
    ELSE ApplyReplacements(replace(s, reps[1][1], reps[1][2]), Tail(reps))

\* the maximal runs of characters other than '_', left to right
RECURSIVE UnderscoreFreeRuns(_, _)
UnderscoreFreeRuns(s, run) ==
    IF s = <<>> THEN (IF run = <<>> THEN <<>> ELSE <<run>>)
    ELSE IF s[1] = "_"
         THEN (IF run = <<>> THEN <<>> ELSE <<run>>)
              \o UnderscoreFreeRuns(Tail(s), <<>>)
         ELSE UnderscoreFreeRuns(Tail(s), Append(run, s[1]))

RECURSIVE JoinRuns(_)
JoinRuns(runs) ==
    IF Len(runs) = 0 THEN <<>>
    ELSE IF Len(runs) = 1 THEN runs[1]
         ELSE runs[1] \o <<"_">> \o JoinRuns(Tail(runs))

\* the general rule of the claim: lower-case, replace in order, collapse
GeneralRule(n) ==
    JoinRuns(UnderscoreFreeRuns(
        ApplyReplacements(to_lowercase(trim(n)), OrderedReplacements), <<>>))

NormalizeDone == pc \in {"norm_done", "norm_twice"}

\* C3: a header whose trimmed text is exactly one of # @ % $ / & normalizes
\* to its canonical word (number, at, percent, usd, slash, and), which for
\* # and / is not what the general rule gives (the empty text); every other
\* header normalizes to what the general rule gives; "" gives "",
\* " First Name " gives "first_name" and "__a__b__" gives "a_b".
C3_TwoTierPrecedence ==
    NormalizeDone =>
        LET trimmed == trim(name) IN
        /\ (Len(trimmed) = 1 /\ trimmed[1] \in DOMAIN CanonicalWord) =>
               /\ normalized = CanonicalWord[trimmed[1]]
               /\ trimmed[1] \in {"#", "/"} =>
                      /\ GeneralRule(name) = <<>>
                      /\ normalized # GeneralRule(name)
        /\ ~(Len(trimmed) = 1 /\ trimmed[1] \in DOMAIN CanonicalWord) =>
               normalized = GeneralRule(name)
        /\ name = <<>> => normalized = <<>>
        /\ name = First_Name_Padded => normalized = first_name
        /\ name = Underscored_a_b => normalized = <<"a", "_", "b">>

\* a padded single symbol has been normalized to its canonical word
C3_Witness ==
    /\ pc = "norm_done"
    /\ name = <<" ", "#", "\t">>
    /\ normalized = <<"n", "u", "m", "b", "e", "r">>

\* C4: normalizing an already-normalized header returns it unchanged
C4_Idempotent ==
    pc = "norm_twice" => renormalized = normalized

----------------------------------------------------------------------------
(* get_visible_column_indices *)

\* the filter_map over the enumerated cells, from 0-based position idx on
RECURSIVE visible_from(_, _)
visible_from(row, idx) ==
    IF idx >= Len(row) THEN <<>>
    ELSE LET cell_str == trim(row[idx + 1])
         IN  (IF cell_str # <<>> THEN <<idx>> ELSE <<>>)
             \o visible_from(row, idx + 1)

RECURSIVE visible_from_untrimmed(_, _)
visible_from_untrimmed(row, idx) ==
    IF idx >= Len(row) THEN <<>>
    ELSE (IF row[idx + 1] # <<>> THEN <<idx>> ELSE <<>>)
         \o visible_from_untrimmed(row, idx + 1)

get_visible_column_indices_untrimmed(row) == visible_from_untrimmed(row, 0)

get_visible_column_indices(row) == visible_from(row, 0)

----------------------------------------------------------------------------
(* Specification SpecVisible: get_visible_column_indices on every header row *)

Name_ == <<"N", "a", "m", "e">>
Age_ == <<"A", "g", "e">>
Email_ == <<"E", "m", "a", "i", "l">>
Phone_ == <<"P", "h", "o", "n", "e">>

\* the header row of the source's example (main.rs:103)
ExampleHeaderRow == <<Name_, Age_, <<>>, Email_, <<>>, Phone_>>

\* cell texts of the enumerated header rows: empty, blank, and not blank
HeaderCellTexts ==
    {<<>>, <<" ">>, <<"\t", "\n">>, <<"a">>, <<" ", "b", " ">>}

InitVisible ==
    /\ pc = "vis_call"
    /\ header_row \in SeqsOf(HeaderCellTexts, 0, MaxCols) \cup {ExampleHeaderRow}
    /\ visible_indices = <<>>
    /\ preserve_order = FALSE
    /\ NormIdle /\ SelIdle /\ ConvIdle /\ IoIdle

\* the visible columns of the header row are computed
GetVisible ==
    /\ pc = "vis_call"
    /\ visible_indices' = get_visible_column_indices(header_row)
    /\ pc' = "vis_done"
    /\ UNCHANGED <<normVars, header_row, selVars, convVars, preserve_order,
                   ioVars>>

NextVisible == GetVisible

SpecVisible == InitVisible /\ [][NextVisible]_vars

\* a cell text with a character that is not whitespace
NotBlank(text) == \E j \in 1..Len(text) : ~IsWhitespace(text[j])

\* C5: the result lists, strictly ascending, exactly the 0-based positions
\* whose cell text is not empty after trimming; an all-blank row gives the
\* empty sequence; ["Name","Age","","Email","","Phone"] gives [0,1,3,5].
C5_VisibleColumns ==
    pc = "vis_done" =>
        /\ \A k \in 1..(Len(visible_indices) - 1) :
               visible_indices[k] < visible_indices[k + 1]
        /\ {visible_indices[k] : k \in 1..Len(visible_indices)}
               = {i \in 0..(Len(header_row) - 1) : NotBlank(header_row[i + 1])}
        /\ (\A i \in 1..Len(header_row) : ~NotBlank(header_row[i]))
               => visible_indices = <<>>
        /\ header_row = ExampleHeaderRow => visible_indices = <<0, 1, 3, 5>>

\* a row with an empty, a blank and two non-blank headers has been scanned
C5_Witness ==
    /\ pc = "vis_done"
    /\ header_row = <<(<<" ", "b", " ">>), (<<"\t", "\n">>), (<<"a">>)>>
    /\ visible_indices = <<0, 2>>

----------------------------------------------------------------------------
(* parse_visible_column_numbers *)

IsDigit(c) == c \in {"0", "1", "2", "3", "4", "5", "6", "7", "8", "9"}

DigitValue(c) == CharCode(c) - CharCode("0")

\* usize::MAX of a 64-bit target, in decimal
UsizeMaxDigits ==
    <<"1", "8", "4", "4", "6", "7", "4", "4", "0", "7", "3", "7", "0", "9",
      "5", "5", "1", "6", "1", "5">>

RECURSIVE strip_leading_zeros(_)
strip_leading_zeros(ds) ==
    IF ds # <<>> /\ ds[1] = "0" THEN strip_leading_zeros(Tail(ds)) ELSE ds

\* whether the digits a (no leading zero) denote more than the digits b
DigitsExceed(a, b) ==
    \/ Len(a) > Len(b)
    \/ /\ Len(a) = Len(b)
       /\ \E i \in 1..Len(a) :
              /\ DigitValue(a[i]) > DigitValue(b[i])
              /\ \A j \in 1..(i - 1) : a[j] = b[j]

\* the number the digits denote; a number of ten or more significant digits
\* is held as 10^9, which exceeds every length the model compares it with
RECURSIVE digits_value(_, _)
digits_value(ds, acc) ==
    IF ds = <<>> THEN acc
    ELSE digits_value(Tail(ds), acc * 10 + DigitValue(ds[1]))

DecimalValue(ds) ==
    LET sig == strip_leading_zeros(ds)
    IN  IF Len(sig) > 9 THEN 10^9 ELSE digits_value(sig, 0)

\* str::parse::<usize>: an optional '+', then one or more decimal digits
\* denoting at most usize::MAX; anything else is an error
parse_usize(s) ==
    IF s = <<>> THEN [ok |-> FALSE, n |-> 0]
    ELSE LET digits == IF s[1] = "+" /\ Len(s) > 1 THEN Tail(s) ELSE s
         IN  IF \E i \in 1..Len(digits) : ~IsDigit(digits[i])
             THEN [ok |-> FALSE, n |-> 0]
             ELSE IF DigitsExceed(strip_leading_zeros(digits), UsizeMaxDigits)
                  THEN [ok |-> FALSE, n |-> 0]
                  ELSE [ok |-> TRUE, n |-> DecimalValue(digits)]

\* the error messages of parse_visible_column_numbers
InvalidColumnNumber == "Invalid column number"
MustBeGreaterThanZero == "Column numbers must be greater than 0"
ExceedsVisibleCount == "Column number exceeds visible column count"

SelOk(cols) == [ok |-> TRUE, cols |-> cols, err |-> "none"]
SelErr(msg) == [ok |-> FALSE, cols |-> <<>>, err |-> msg]

\* the closure mapped over the tokens: one token to Ok(column) or Err
token_result_raw_ordinal(tok, visible) ==
    LET parsed == parse_usize(trim(tok))
    IN  IF ~parsed.ok THEN SelErr(InvalidColumnNumber)
        ELSE IF parsed.n = 0 THEN SelErr(MustBeGreaterThanZero)
        ELSE IF parsed.n > Len(visible) THEN SelErr(ExceedsVisibleCount)
        ELSE SelOk(<<parsed.n - 1>>)

token_result(tok, visible) ==
    LET parsed == parse_usize(trim(tok))
    IN  IF ~parsed.ok THEN SelErr(InvalidColumnNumber)
        ELSE IF parsed.n = 0 THEN SelErr(MustBeGreaterThanZero)
        ELSE IF parsed.n > Len(visible) THEN SelErr(ExceedsVisibleCount)
        ELSE SelOk(<<visible[parsed.n]>>)

\* collect::<Result<Vec<_>>>: the first Err, or else all the Ok values
RECURSIVE collect_last_error(_, _)
collect_last_error(toks, visible) ==
    IF toks = <<>> THEN SelOk(<<>>)
    ELSE LET first == token_result(toks[1], visible)
             rest  == collect_last_error(Tail(toks), visible)
         IN  IF ~rest.ok THEN rest
             ELSE IF ~first.ok THEN first
             ELSE SelOk(first.cols \o rest.cols)

RECURSIVE collect(_, _)
collect(toks, visible) ==
    IF toks = <<>> THEN SelOk(<<>>)
    ELSE LET first == token_result(toks[1], visible)
         IN  IF ~first.ok THEN first
             ELSE LET rest == collect(Tail(toks), visible)
                  IN  IF ~rest.ok THEN rest
                      ELSE SelOk(first.cols \o rest.cols)

parse_visible_column_numbers(text, visible) ==
    collect(split(text, ","), visible)

----------------------------------------------------------------------------
(* Specification SpecSelector: parse_visible_column_numbers on selectors *)

\* the ascending sequence of the members of a set of numbers
RECURSIVE Ascending(_)
Ascending(S) ==
    IF S = {} THEN <<>>
    ELSE LET m == CHOOSE x \in S : \A y \in S : x <= y
         IN  <<m>> \o Ascending(S \ {m})

\* the visible-index sequences enumerated: every set of columns of a header
\* row of MaxCols cells, and the source's example (main.rs:140)
VisibleIndexSeqs ==
    {Ascending(S) : S \in SUBSET (0..(MaxCols - 1))} \cup {<<0, 2, 5, 7>>}

\* 2^64, one more than usize::MAX
UsizeOverflowDigits ==
    <<"1", "8", "4", "4", "6", "7", "4", "4", "0", "7", "3", "7", "0", "9",
      "5", "5", "1", "6", "1", "6">>

\* the selector tokens enumerated
SelectorTokens ==
    {<<"1">>, <<"2">>, <<"3">>, <<" ", "2", " ">>, <<"+", "1">>, <<"0">>,
     <<"0", "0">>, <<"-", "1">>, <<"a", "b", "c">>, <<>>, <<"9", "9">>,
     UsizeMaxDigits, UsizeOverflowDigits}

InitSelector ==
    /\ pc = "sel_call"
    /\ visible_indices \in VisibleIndexSeqs
    /\ \E toks \in SeqsOf(SelectorTokens, 1, MaxTokens) :
           columns_str = SomeColumns(join(toks, <<",">>))
    /\ selection = NoSelection
    /\ header_row = <<>>
    /\ preserve_order = FALSE
    /\ NormIdle /\ ConvIdle /\ IoIdle

\* the selector is parsed against the visible columns
ParseSelector ==
    /\ pc = "sel_call"
    /\ selection' =
           parse_visible_column_numbers(columns_str.text, visible_indices)
    /\ pc' = "sel_done"
    /\ UNCHANGED <<normVars, header_row, visible_indices, columns_str,
                   convVars, preserve_order, ioVars>>

NextSelector == ParseSelector

SpecSelector == InitSelector /\ [][NextSelector]_vars

----------------------------------------------------------------------------
(* C1, C2: parse_visible_column_numbers *)

\* the tokens of the selector, and the ordinal each one parses to
Tokens == split(columns_str.text, ",")
Ordinal(i) == parse_usize(trim(Tokens[i]))

ValidOrdinal(i) ==
    /\ Ordinal(i).ok
    /\ 1 <= Ordinal(i).n
    /\ Ordinal(i).n <= Len(visible_indices)

\* C1: when every token trim-parses to an ordinal n_i with
\* 1 <= n_i <= len(V), the result is Ok of a sequence as long as the token
\* list whose i-th element is V[n_i - 1], in token order, repeats kept.
C1_ExplicitSelection ==
    (pc = "sel_done" /\ \A i \in 1..Len(Tokens) : ValidOrdinal(i)) =>
        /\ selection.ok
        /\ Len(selection.cols) = Len(Tokens)
        /\ \A i \in 1..Len(Tokens) :
               selection.cols[i] = visible_indices[Ordinal(i).n]

\* a reordered selection with a repeated ordinal has been resolved
C1_Witness ==
    /\ pc = "sel_done"
    /\ visible_indices = <<0, 2>>
    /\ columns_str.text = <<"2", ",", "+", "1">>
    /\ selection = SelOk(<<2, 0>>)

\* C2: when some token is invalid the result is an error without columns,
\* decided by the first invalid token alone: "Invalid column number"
\* (InvalidSelector) when it does not parse, and an out-of-range message
\* (SelectorOutOfRange) when it parses to 0 or to more than len(V).
C2_FailFast ==
    (pc = "sel_done" /\ \E i \in 1..Len(Tokens) : ~ValidOrdinal(i)) =>
        LET i == CHOOSE k \in 1..Len(Tokens) :
                     ~ValidOrdinal(k) /\ \A j \in 1..(k - 1) : ValidOrdinal(j)
        IN  /\ ~selection.ok
            /\ selection.cols = <<>>
            /\ ~Ordinal(i).ok => selection.err = InvalidColumnNumber
            /\ (Ordinal(i).ok /\ Ordinal(i).n = 0)
                   => selection.err = MustBeGreaterThanZero
            /\ (Ordinal(i).ok /\ Ordinal(i).n > Len(visible_indices))
                   => selection.err = ExceedsVisibleCount

\* an out-of-range token followed by an unparsable one has been rejected
C2_Witness ==
    /\ pc = "sel_done"
    /\ visible_indices = <<0, 2>>
    /\ columns_str.text = <<"9", "9", ",", "a", "b", "c">>
    /\ selection = SelErr(ExceedsVisibleCount)

----------------------------------------------------------------------------
(* extract_headers, convert_cell_to_json, convert_rows_to_json *)

\* format!("{}", n) of a usize
RECURSIVE to_decimal(_)
to_decimal(n) ==
    IF n < 10 THEN <<AsciiOrder[CharCode("0") + n]>>
    ELSE to_decimal(n \div 10) \o <<AsciiOrder[CharCode("0") + (n % 10)]>>

\* the closure of extract_headers: the header of grid column i
header_of(row, i) ==
    IF i < Len(row) THEN normalize_column_name(row[i + 1])
    ELSE <<"c", "o", "l", "u", "m", "n", "_">> \o to_decimal(i + 1)

extract_headers(row, indices) ==
    [k \in 1..Len(indices) |-> header_of(row, indices[k])]

\* serde_json::Value, as far as the program builds it: a string or null
JsonNull == [null |-> TRUE, text |-> <<>>]
JsonString(text) == [null |-> FALSE, text |-> text]

convert_cell_to_json(cell) == JsonString(cell)

\* row.get(col_idx).map(convert_cell_to_json).unwrap_or(json!(null))
cell_value_blank(row, col_idx) ==
    IF col_idx < Len(row) THEN convert_cell_to_json(row[col_idx + 1])
    ELSE JsonString(<<>>)

cell_value(row, col_idx) ==
    IF col_idx < Len(row) THEN convert_cell_to_json(row[col_idx + 1])
    ELSE JsonNull

\* String's Ord: lexicographic on the bytes
TextLess(a, b) ==
    \/ /\ Len(a) < Len(b)
       /\ \A j \in 1..Len(a) : a[j] = b[j]
    \/ \E i \in 1..Len(a) :
           /\ i <= Len(b)
           /\ CharCode(a[i]) < CharCode(b[i])
           /\ \A j \in 1..(i - 1) : a[j] = b[j]

\* serde_json::Map, as the sequence of its entries in iteration order.
\* An entry whose key is present replaces that entry's value in place; a new
\* key goes to the end under "preserve_order" (IndexMap) and to its sorted
\* place otherwise (BTreeMap).
map_insert_keep_first(m, key, value, ordered) ==
    IF \E i \in 1..Len(m) : m[i].key = key
    THEN m
    ELSE IF ordered
         THEN Append(m, [key |-> key, value |-> value])
         ELSE LET before == {i \in 1..Len(m) : TextLess(m[i].key, key)}
                  n == Cardinality(before)
              IN  SubSeq(m, 1, n) \o <<[key |-> key, value |-> value]>>
                  \o SubSeq(m, n + 1, Len(m))

map_insert(m, key, value, ordered) ==
    IF \E i \in 1..Len(m) : m[i].key = key
    THEN [i \in 1..Len(m) |->
             IF m[i].key = key THEN [key |-> key, value |-> value] ELSE m[i]]
    ELSE IF ordered
         THEN Append(m, [key |-> key, value |-> value])
         ELSE LET before == {i \in 1..Len(m) : TextLess(m[i].key, key)}
                  n == Cardinality(before)
              IN  SubSeq(m, 1, n) \o <<[key |-> key, value |-> value]>>
                  \o SubSeq(m, n + 1, Len(m))

\* the collect into a Map of the (header, value) pairs of one row, the
\* pairs from position k on being inserted into m
RECURSIVE collect_map(_, _, _, _, _, _)
collect_map(m, row, hdrs, indices, k, ordered) ==
    IF k > Len(indices) THEN m
    ELSE collect_map(
             map_insert(m, hdrs[k], cell_value(row, indices[k]), ordered),
             row, hdrs, indices, k + 1, ordered)

convert_rows_to_json(rws, hdrs, indices, ordered) ==
    [r \in 1..Len(rws) |->
        collect_map(<<>>, rws[r], hdrs, indices, 1, ordered)]

----------------------------------------------------------------------------
(* Specification SpecConvert: extract_headers and convert_rows_to_json on *)
(* header rows, selections and data rows, the rows of any length           *)

name_ == <<"n", "a", "m", "e">>

\* header rows with distinct headers, with headers that normalize alike,
\* and with a blank header between two visible ones
ConvertHeaderRows ==
    {<<Name_, Age_>>, <<Name_, name_>>, <<Name_, <<>>, Age_>>,
     <<Age_, Name_, name_>>}

\* the text of a filled data cell of grid column c (0-based)
DataCell(c) == <<"v", AsciiOrder[CharCode("0") + c]>>

\* data rows of at most w cells, each cell blank or filled
DataRows(w) ==
    UNION {{r \in [1..n -> {<<>>} \cup {DataCell(c) : c \in 0..(w - 1)}] :
               \A c \in 1..n : r[c] \in {<<>>, DataCell(c - 1)}} : n \in 0..w}

InitConvert ==
    /\ pc = "conv_call"
    /\ header_row \in ConvertHeaderRows
    /\ visible_indices = get_visible_column_indices(header_row)
    /\ column_indices \in
           SeqsOf({visible_indices[k] : k \in 1..Len(visible_indices)},
                  0, MaxTokens)
    /\ rows \in SeqsOf(DataRows(Len(header_row)), 0, MaxRows)
    /\ headers = <<>> /\ json_array = <<>>
    /\ preserve_order \in BOOLEAN
    /\ NormIdle /\ SelIdle /\ IoIdle

\* the headers of the selection are extracted and normalized
ExtractHeaders ==
    /\ pc = "conv_call"
    /\ headers' = extract_headers(header_row, column_indices)
    /\ pc' = "conv_headers"
    /\ UNCHANGED <<normVars, header_row, visible_indices, selVars,
                   column_indices, rows, json_array, preserve_order, ioVars>>

\* every data row is converted into a JSON object
ConvertRows ==
    /\ pc = "conv_headers"
    /\ json_array' =
           convert_rows_to_json(rows, headers, column_indices, preserve_order)
    /\ pc' = "conv_done"
    /\ UNCHANGED <<normVars, header_row, visible_indices, selVars,
                   column_indices, headers, rows, preserve_order, ioVars>>

NextConvert == ExtractHeaders \/ ConvertRows

SpecConvert == InitConvert /\ [][NextConvert]_vars

----------------------------------------------------------------------------
(* C6, C7: convert_rows_to_json *)

HasKey(obj, key) == \E e \in 1..Len(obj) : obj[e].key = key

\* the value an object holds under a key it has
ValueAt(obj, key) ==
    obj[CHOOSE e \in 1..Len(obj) : obj[e].key = key].value

\* what the claim expects of position i of the selection in data row r
ExpectedValue(r, i) ==
    IF column_indices[i] < Len(rows[r])
    THEN [null |-> FALSE, text |-> rows[r][column_indices[i] + 1]]
    ELSE [null |-> TRUE, text |-> <<>>]

\* position i is the last position of the selection with its header
LastWithHeader(i) ==
    \A j \in (i + 1)..Len(headers) : headers[j] # headers[i]

\* C6 as stated: for every data row and every position i, the value under
\* key NormalizedHeaders[i] is the text of the cell at ColumnSelection[i]
\* when the row has that cell, and null when the row is shorter.
C6_EveryPosition ==
    pc = "conv_done" =>
        \A r \in 1..Len(rows) : \A i \in 1..Len(column_indices) :
            /\ HasKey(json_array[r], headers[i])
            /\ ValueAt(json_array[r], headers[i]) = ExpectedValue(r, i)

\* C6 amended: the same, for every position i that no later position of
\* the selection shares its normalized header with.
C6_LastPosition ==
    pc = "conv_done" =>
        \A r \in 1..Len(rows) : \A i \in 1..Len(column_indices) :
            LastWithHeader(i) =>
                /\ HasKey(json_array[r], headers[i])
                /\ ValueAt(json_array[r], headers[i]) = ExpectedValue(r, i)

\* a row with a blank first cell and no third cell has been converted
C6_Witness ==
    /\ pc = "conv_done"
    /\ header_row = <<Name_, <<>>, Age_>>
    /\ column_indices = <<0, 2>>
    /\ rows = <<(<<(<<>>), DataCell(1)>>)>>
    /\ json_array =
           <<IF preserve_order
             THEN <<[key |-> name_, value |-> JsonString(<<>>)],
                    [key |-> <<"a", "g", "e">>, value |-> JsonNull]>>
             ELSE <<[key |-> <<"a", "g", "e">>, value |-> JsonNull],
                    [key |-> name_, value |-> JsonString(<<>>)]>> >>

\* the last position of the selection with the given header
LastPosition(key) ==
    CHOOSE i \in 1..Len(headers) :
        headers[i] = key /\ \A j \in (i + 1)..Len(headers) : headers[j] # key

\* C7: every record has exactly one entry for each distinct normalized
\* header of the selection and no other, the entry's value is the one of the
\* last position with that header, and every data row yields a record.
C7_LastWriteWins ==
    pc = "conv_done" =>
        /\ Len(json_array) = Len(rows)
        /\ \A r \in 1..Len(rows) :
               LET obj == json_array[r] IN
               /\ \A e, f \in 1..Len(obj) : obj[e].key = obj[f].key => e = f
               /\ {obj[e].key : e \in 1..Len(obj)}
                      = {headers[i] : i \in 1..Len(headers)}
               /\ Len(obj) = Cardinality({headers[i] : i \in 1..Len(headers)})
               /\ \A e \in 1..Len(obj) :
                      obj[e].value = ExpectedValue(r, LastPosition(obj[e].key))

\* two columns whose headers normalize alike have been converted
C7_Witness ==
    /\ pc = "conv_done"
    /\ header_row = <<Name_, name_>>
    /\ column_indices = <<0, 1>>
    /\ rows = <<(<<DataCell(0), DataCell(1)>>)>>
    /\ json_array = << <<[key |-> name_, value |-> JsonString(DataCell(1))]>> >>

----------------------------------------------------------------------------
(* write_json_to_file *)

Punct(c) == [t |-> "punct", text |-> <<c>>]

\* the text of one object: its entries in the Map's iteration order
RECURSIVE object_tokens(_)
object_tokens(obj) ==
    IF obj = <<>> THEN <<>>
    ELSE <<[t |-> "key", text |-> obj[1].key],
           [t |-> IF obj[1].value.null THEN "null" ELSE "string",
            text |-> obj[1].value.text]>>
         \o object_tokens(Tail(obj))

RECURSIVE array_tokens(_)
array_tokens(arr) ==
    IF arr = <<>> THEN <<>>
    ELSE <<Punct("{")>> \o object_tokens(arr[1]) \o <<Punct("}")>>
         \o array_tokens(Tail(arr))

\* serde_json::to_string_pretty, as the sequence of the brackets, keys and
\* values it emits (the separators and the indentation carry no data)
to_string_pretty(arr) == <<Punct("[")>> \o array_tokens(arr) \o <<Punct("]")>>

\* the error messages of main and the functions it calls
FailedToOpen == "Failed to open Excel file"
SheetNotFoundMsg == "Sheet not found"
SheetIsEmpty == "Excel sheet is empty, no header row found"
FailedToCreate == "Failed to create output file"
FailedToWrite == "Failed to write to output file"

\* the rows iterator after rows.next() has yielded the header row
data_rows_with_header(g) == g

data_rows(g) == Tail(g)

----------------------------------------------------------------------------
(* Specification Spec: a run of main *)

\* most data rows of an enumerated sheet
MaxGridRows == 2
\* most columns of an enumerated sheet
MaxWidth == 2

\* header cells of the enumerated sheets
GridHeaderCells == {Name_, Age_, <<>>}

\* the text of the data cell of row r (1-based among the data rows) and
\* column c (0-based): every cell of a sheet is told from every other
GridCell(r, c) ==
    <<"r", AsciiOrder[CharCode("0") + r], "c", AsciiOrder[CharCode("0") + c]>>

\* a calamine Range is rectangular: the empty range has no row, and every
\* row of another range has the range's width
Grids ==
    {<<>>} \cup
    {<<h>> \o [r \in 1..n |-> [c \in 1..Len(h) |-> GridCell(r, c - 1)]] :
        h \in SeqsOf(GridHeaderCells, 1, MaxWidth), n \in 0..MaxGridRows}

\* the --columns arguments enumerated
GridSelectorTokens == {<<"1">>, <<"2">>, <<"x">>}
ColumnsArgs ==
    {NoColumns} \cup
    {SomeColumns(join(toks, <<",">>)) :
        toks \in SeqsOf(GridSelectorTokens, 1, MaxTokens)}

\* what the output path holds before the run: nothing, or an older file
OldFile == [exists |-> TRUE, content |-> <<[t |-> "old", text |-> <<>>]>>]

Init ==
    /\ pc = "main_start"
    /\ grid \in Grids
    /\ columns_str \in ColumnsArgs
    /\ out_before \in {NoFile, OldFile}
    /\ out_file = out_before
    /\ preserve_order \in BOOLEAN
    /\ header_row = <<>> /\ visible_indices = <<>>
    /\ selection = NoSelection
    /\ json_output = <<>> /\ error = NoError
    /\ NormIdle /\ ConvIdle

Fail(msg) ==
    /\ pc' = "failed"
    /\ error' = msg

\* read_excel_sheet: the workbook opens and has the sheet
ReadSheet ==
    /\ pc = "main_start"
    /\ pc' = "sheet_read"
    /\ UNCHANGED <<normVars, header_row, visible_indices, selVars, convVars,
                   preserve_order, ioVars>>

\* read_excel_sheet: open_workbook fails
OpenFails ==
    /\ pc = "main_start"
    /\ Fail(FailedToOpen)
    /\ UNCHANGED <<normVars, header_row, visible_indices, selVars, convVars,
                   preserve_order, grid, json_output, out_before, out_file>>

\* read_excel_sheet: the workbook has no sheet of that name
SheetNotFound ==
    /\ pc = "main_start"
    /\ Fail(SheetNotFoundMsg)
    /\ UNCHANGED <<normVars, header_row, visible_indices, selVars, convVars,
                   preserve_order, grid, json_output, out_before, out_file>>

\* rows.next() yields the header row; the visible columns are detected
TakeHeaderRow ==
    /\ pc = "sheet_read"
    /\ grid # <<>>
    /\ header_row' = Head(grid)
    /\ rows' = data_rows(grid)
    /\ visible_indices' = get_visible_column_indices(Head(grid))
    /\ pc' = "header_taken"
    /\ UNCHANGED <<normVars, selVars, column_indices, headers, json_array,
                   preserve_order, ioVars>>

\* rows.next() yields nothing
SheetEmpty ==
    /\ pc = "sheet_read"
    /\ grid = <<>>
    /\ Fail(SheetIsEmpty)
    /\ UNCHANGED <<normVars, header_row, visible_indices, selVars, convVars,
                   preserve_order, grid, json_output, out_before, out_file>>

\* no --columns: all the visible columns are selected
SelectAllVisible ==
    /\ pc = "header_taken"
    /\ ~columns_str.some
    /\ column_indices' = visible_indices
    /\ pc' = "selected"
    /\ UNCHANGED <<normVars, header_row, visible_indices, selVars, headers,
                   rows, json_array, preserve_order, ioVars>>

\* --columns is given and every token of it is valid
SelectExplicit ==
    /\ pc = "header_taken"
    /\ columns_str.some
    /\ LET res == parse_visible_column_numbers(columns_str.text,
                                               visible_indices)
       IN  /\ res.ok
           /\ selection' = res
           /\ column_indices' = res.cols
    /\ pc' = "selected"
    /\ UNCHANGED <<normVars, header_row, visible_indices, columns_str,
                   headers, rows, json_array, preserve_order, ioVars>>

\* --columns is given and a token of it is invalid
SelectorRejected ==
    /\ pc = "header_taken"
    /\ columns_str.some
    /\ LET res == parse_visible_column_numbers(columns_str.text,
                                               visible_indices)
       IN  /\ ~res.ok
           /\ selection' = res
           /\ Fail(res.err)
    /\ UNCHANGED <<normVars, header_row, visible_indices, columns_str,
                   convVars, preserve_order, grid, json_output, out_before,
                   out_file>>

\* the headers are extracted and the data rows converted
BuildRecords ==
    /\ pc = "selected"
    /\ LET hdrs == extract_headers(header_row, column_indices)
       IN  /\ headers' = hdrs
           /\ json_array' = convert_rows_to_json(rows, hdrs, column_indices,
                                                 preserve_order)
    /\ pc' = "converted"
    /\ UNCHANGED <<normVars, header_row, visible_indices, selVars,
                   column_indices, rows, preserve_order, ioVars>>

\* write_json_to_file: the array is serialized (this cannot fail: every key
\* of the Map is a string)
Serialize ==
    /\ pc = "converted"
    /\ json_output' = to_string_pretty(json_array)
    /\ pc' = "serialized"
    /\ UNCHANGED <<normVars, header_row, visible_indices, selVars, convVars,
                   preserve_order, grid, out_before, out_file, error>>

\* write_json_to_file: File::create makes the file or truncates it
CreateFile ==
    /\ pc = "serialized"
    /\ out_file' = [exists |-> TRUE, content |-> <<>>]
    /\ pc' = "created"
    /\ UNCHANGED <<normVars, header_row, visible_indices, selVars, convVars,
                   preserve_order, grid, json_output, out_before, error>>

\* write_json_to_file: File::create fails
CreateFails ==
    /\ pc = "serialized"
    /\ Fail(FailedToCreate)
    /\ UNCHANGED <<normVars, header_row, visible_indices, selVars, convVars,
                   preserve_order, grid, json_output, out_before, out_file>>

\* write_json_to_file: write_all writes all of the text
WriteAll ==
    /\ pc = "created"
    /\ out_file' = [exists |-> TRUE, content |-> json_output]
    /\ pc' = "done"
    /\ UNCHANGED <<normVars, header_row, visible_indices, selVars, convVars,
                   preserve_order, grid, json_output, out_before, error>>

\* write_json_to_file: write_all fails, some of the text being written
WriteFails ==
    /\ pc = "created"
    /\ \E k \in 0..(Len(json_output) - 1) :
           out_file' = [exists |-> TRUE, content |-> SubSeq(json_output, 1, k)]
    /\ Fail(FailedToWrite)
    /\ UNCHANGED <<normVars, header_row, visible_indices, selVars, convVars,
                   preserve_order, grid, json_output, out_before>>

Next ==
    \/ ReadSheet \/ OpenFails \/ SheetNotFound
    \/ TakeHeaderRow \/ SheetEmpty
    \/ SelectAllVisible \/ SelectExplicit \/ SelectorRejected
    \/ BuildRecords \/ Serialize
    \/ CreateFile \/ CreateFails
    \/ WriteAll \/ WriteFails

Spec == Init /\ [][Next]_vars

----------------------------------------------------------------------------
(* C8, C9, C10: a run of main *)

\* C8: a run either writes the full record array to the output file or
\* leaves the output file exactly as it was before the run.
C8_NoPartialWrite ==
    /\ pc = "done" => out_file = [exists |-> TRUE, content |-> json_output]
    /\ pc = "failed" => out_file = out_before

\* the records have been built
RecordsBuilt == pc \in {"converted", "serialized", "created", "done"}

\* every value of record obj is the text of a cell of grid row g
BuiltFromGridRow(obj, g) ==
    \A e \in 1..Len(obj) :
        \E i \in 1..Len(column_indices) :
            /\ headers[i] = obj[e].key
            /\ obj[e].value = [null |-> FALSE,
                               text |-> grid[g][column_indices[i] + 1]]

\* C9: the first row is consumed as the header and never becomes a record:
\* of a sheet with n >= 1 rows, n - 1 records are built, the j-th from the
\* (j+1)-th row; a sheet with only a header row gives a successful run
\* that writes the empty array; a sheet with no row fails with the
\* empty-sheet error.
C9_HeaderRowConsumed ==
    /\ RecordsBuilt =>
           /\ Len(grid) >= 1
           /\ Len(json_array) = Len(grid) - 1
           /\ \A j \in 1..Len(json_array) :
                  BuiltFromGridRow(json_array[j], j + 1)
    /\ (Len(grid) = 1 /\ pc = "done") =>
           /\ json_array = <<>>
           /\ out_file.content = <<Punct("[")>> \o <<Punct("]")>>
           /\ error = NoError
    /\ Len(grid) >= 1 => error # SheetIsEmpty
    /\ (Len(grid) = 0 /\ pc \notin {"main_start", "sheet_read"}) =>
           /\ pc = "failed"
           /\ error \in {FailedToOpen, SheetNotFoundMsg, SheetIsEmpty}

\* a sheet of a header row and two data rows has been converted and written
C9_Witness ==
    /\ pc = "done"
    /\ grid = <<(<<Name_, Age_>>),
                (<<GridCell(1, 0), GridCell(1, 1)>>),
                (<<GridCell(2, 0), GridCell(2, 1)>>)>>
    /\ ~columns_str.some
    /\ Len(json_array) = 2
    /\ \A e \in 1..2 : json_array[2][e].value.text[2] = "2"

\* the distinct members of a sequence, in the order of their first occurrence
RECURSIVE FirstOccurrences(_, _)
FirstOccurrences(seq, seen) ==
    IF seq = <<>> THEN <<>>
    ELSE IF seq[1] \in seen THEN FirstOccurrences(Tail(seq), seen)
         ELSE <<seq[1]>> \o FirstOccurrences(Tail(seq), seen \cup {seq[1]})

\* the keys of the objects of an emitted text, object by object
RECURSIVE EmittedKeys(_, _)
EmittedKeys(text, keys) ==
    IF text = <<>> THEN <<>>
    ELSE IF text[1] = Punct("{") THEN EmittedKeys(Tail(text), <<>>)
    ELSE IF text[1] = Punct("}") THEN <<keys>> \o EmittedKeys(Tail(text), <<>>)
    ELSE IF text[1].t = "key"
         THEN EmittedKeys(Tail(text), Append(keys, text[1].text))
         ELSE EmittedKeys(Tail(text), keys)

\* C10: in every emitted object the keys appear in selection order (the
\* order of the first occurrence of each normalized header).
C10_KeysInSelectionOrder ==
    pc = "done" =>
        LET emitted == EmittedKeys(out_file.content, <<>>) IN
        /\ Len(emitted) = Len(rows)
        /\ \A r \in 1..Len(emitted) :
               emitted[r] = FirstOccurrences(headers, {})

====
